---- MODULE Spec2Model ----
(***************************************************************************)
(* Model of prompt_engineering.ipynb: the notebook kernel (its globals     *)
(* API_KEY and MODEL_NAME, the imported config module, the definition of   *)
(* query_hugging_face) and the single request helper query_hugging_face,   *)
(* run against a transport (requests.post) that may raise or answer with   *)
(* any status and body.                                                    *)
(*                                                                         *)
(* Python values are tagged records: [t |-> "str", s |-> ...] is a str,    *)
(* [t |-> "null"] is None, and so on.  A float is written by its literal   *)
(* ("0.7").                                                                *)
(***************************************************************************)
EXTENDS Integers, Sequences, FiniteSets, TLC

VARIABLES
    configFile,     \* config.py on disk (edited outside the kernel)
    configModule,   \* the module object `config` cached by the kernel
    API_KEY,        \* notebook global
    MODEL_NAME,     \* notebook global
    defined,        \* the cell defining query_hugging_face has run
    edits,          \* number of edits of config.py so far
    calls,          \* number of calls of query_hugging_face so far
    pc,             \* "idle" or "posting" (a call blocked in requests.post)
    prompt,         \* argument of the current or last call
    kwargs,         \* optional arguments the caller passed
    request,        \* what the call handed to requests.post
    posts,          \* number of requests.post calls of the current call
    reply,          \* what requests.post raised or returned
    outcome,        \* "none", "returned" or "raised"
    generated_text, \* the returned value
    raised          \* the exception class that propagated to the caller

vars == <<configFile, configModule, API_KEY, MODEL_NAME, defined, edits,
          calls, pc, prompt, kwargs, request, posts, reply, outcome,
          generated_text, raised>>

configVars == <<configFile, configModule, API_KEY, MODEL_NAME, defined, edits>>

callVars == <<calls, pc, prompt, kwargs, request, posts, reply, outcome,
              generated_text, raised>>

----------------------------------------------------------------------------
(* Bounds *)

MaxCalls == 2

MaxEdits == 1

----------------------------------------------------------------------------
(* Python values *)

PyStr(s) == [t |-> "str", s |-> s]

PyNum(n) == [t |-> "num", n |-> n]

PyNone == [t |-> "null"]

PyList(items) == [t |-> "list", items |-> items]

PyDict(fields) == [t |-> "dict", fields |-> fields]

NoValue == [t |-> "novalue"]

EmptyMap == [k \in {} |-> 0]

----------------------------------------------------------------------------
(* Configuration: config.py, the config module, the notebook globals *)

Unbound == "<unbound>"

Absent == "<absent>"

NoFile == [exists |-> FALSE]

NotImported == [imported |-> FALSE]

Keys == {"hf_token_1", "hf_token_2"}

Models == {"tiiuae/falcon-7b-instruct", "mistralai/Mistral-7B-Instruct"}

ConfigFiles ==
    {NoFile} \cup
    {[HUGGINGFACE_API_KEY |-> k, MODEL_NAME |-> m] :
        k \in Keys \cup {Absent}, m \in Models \cup {Absent}}

\* `import config`: the file is executed only when the module is not cached.
ImportConfig(module, file) ==
    IF module # NotImported THEN [ok |-> TRUE, module |-> module]
    ELSE IF file = NoFile THEN [ok |-> FALSE, module |-> module]
    ELSE [ok |-> TRUE, module |-> file]

\* importlib.reload(config): the file is executed again in the module's
\* namespace; a name the new file does not define keeps its old value.
ReloadConfig(module, file) ==
    IF file = NoFile THEN [ok |-> FALSE, module |-> module]
    ELSE [ok |-> TRUE,
          module |->
            [HUGGINGFACE_API_KEY |->
                IF file.HUGGINGFACE_API_KEY # Absent
                THEN file.HUGGINGFACE_API_KEY ELSE module.HUGGINGFACE_API_KEY,
             MODEL_NAME |->
                IF file.MODEL_NAME # Absent
                THEN file.MODEL_NAME ELSE module.MODEL_NAME]]

\* API_KEY = config.HUGGINGFACE_API_KEY ; MODEL_NAME = config.MODEL_NAME
\* A missing attribute raises AttributeError and the cell stops there.
AssignGlobals(module) ==
    IF module.HUGGINGFACE_API_KEY = Absent
    THEN UNCHANGED <<API_KEY, MODEL_NAME>>
    ELSE /\ API_KEY' = module.HUGGINGFACE_API_KEY
         /\ IF module.MODEL_NAME = Absent
            THEN UNCHANGED MODEL_NAME
            ELSE MODEL_NAME' = module.MODEL_NAME

\* The cell "import config; API_KEY = ...; MODEL_NAME = ...".
LoadConfigCell ==
    /\ pc = "idle"
    /\ LET imp == ImportConfig(configModule, configFile) IN
        /\ configModule' = imp.module
        /\ IF imp.ok THEN AssignGlobals(imp.module)
           ELSE UNCHANGED <<API_KEY, MODEL_NAME>>
    /\ UNCHANGED <<configFile, defined, edits>>
    /\ UNCHANGED callVars

\* The cell "import config; importlib.reload(config); API_KEY = ...".
ReloadConfigCell ==
    /\ pc = "idle"
    /\ LET imp == ImportConfig(configModule, configFile) IN
        IF ~imp.ok
        THEN UNCHANGED <<configModule, API_KEY, MODEL_NAME>>
        ELSE LET rel == ReloadConfig(imp.module, configFile) IN
            /\ configModule' = rel.module
            /\ IF rel.ok THEN AssignGlobals(rel.module)
               ELSE UNCHANGED <<API_KEY, MODEL_NAME>>
    /\ UNCHANGED <<configFile, defined, edits>>
    /\ UNCHANGED callVars

\* The cell "import requests; def query_hugging_face(...)".
DefineCell ==
    /\ pc = "idle"
    /\ defined' = TRUE
    /\ UNCHANGED <<configFile, configModule, API_KEY, MODEL_NAME, edits>>
    /\ UNCHANGED callVars

\* config.py is written, replaced or removed outside the kernel.
EditConfig ==
    /\ edits < MaxEdits
    /\ edits' = edits + 1
    /\ \E f \in ConfigFiles \ {configFile} : configFile' = f
    /\ UNCHANGED <<configModule, API_KEY, MODEL_NAME, defined>>
    /\ UNCHANGED callVars

----------------------------------------------------------------------------
(* The transport: what requests.post raises or returns *)

\* The classes an exception is an instance of (its class and its bases).
Bases(cls) ==
    CASE cls = "ConnectTimeout" ->
            {"ConnectTimeout", "ConnectionError", "Timeout",
             "RequestException", "Exception", "BaseException"}
      [] cls = "ReadTimeout" ->
            {"ReadTimeout", "Timeout", "RequestException", "Exception",
             "BaseException"}
      [] cls = "ConnectionError" ->
            {"ConnectionError", "RequestException", "Exception",
             "BaseException"}
      [] cls = "SSLError" ->
            {"SSLError", "ConnectionError", "RequestException", "Exception",
             "BaseException"}
      [] cls = "TooManyRedirects" ->
            {"TooManyRedirects", "RequestException", "Exception",
             "BaseException"}
      [] cls = "HTTPError" ->
            {"HTTPError", "RequestException", "Exception", "BaseException"}
      [] cls = "JSONDecodeError" ->
            {"JSONDecodeError", "ValueError", "Exception", "BaseException"}
      [] cls = "KeyboardInterrupt" ->
            {"KeyboardInterrupt", "BaseException"}
      [] OTHER -> {cls, "Exception", "BaseException"}

Ok(v) == [raised |-> FALSE, value |-> v, cls |-> "", msg |-> ""]

Raise(cls, msg) == [raised |-> TRUE, value |-> NoValue, cls |-> cls, msg |-> msg]

\* Exceptions requests.post can raise, with their text (str(e)).
TransportExceptions ==
    {[cls |-> "ConnectTimeout", msg |-> "Connection to host timed out."],
     [cls |-> "ReadTimeout", msg |-> "Read timed out. (read timeout=10)"],
     [cls |-> "ConnectionError", msg |-> "Failed to establish a new connection"],
     [cls |-> "SSLError", msg |-> "certificate verify failed"],
     [cls |-> "TooManyRedirects", msg |-> "Exceeded 30 redirects."],
     [cls |-> "KeyboardInterrupt", msg |-> ""]}

Statuses == {200, 201, 304, 404, 503}

ReasonOf(status) ==
    CASE status = 200 -> "OK"
      [] status = 201 -> "Created"
      [] status = 304 -> "Not Modified"
      [] status = 404 -> "Not Found"
      [] status = 503 -> "Service Unavailable"
      [] OTHER -> ""

\* Response bodies, as the text on the wire.
Bodies ==
    {"[{\"generated_text\": \"2+2=4\"}]",
     "[{\"generated_text\": \"Paris\"}, {\"generated_text\": \"Rome\"}]",
     "[{\"generated_text\": null}]",
     "[{\"error\": \"overloaded\"}]",
     "[]",
     "[\"Paris\"]",
     "{\"error\": \"Model is loading\"}",
     "\"Paris\"",
     "5",
     "<html>Bad Gateway</html>",
     ""}

Replies ==
    {[kind |-> "raise", cls |-> e.cls, msg |-> e.msg, status |-> 0,
      reason |-> "", body |-> ""] : e \in TransportExceptions}
    \cup
    {[kind |-> "response", cls |-> "", msg |-> "", status |-> s,
      reason |-> ReasonOf(s), body |-> b] : s \in Statuses, b \in Bodies}

NoReply ==
    [kind |-> "none", cls |-> "", msg |-> "", status |-> 0, reason |-> "",
     body |-> ""]

----------------------------------------------------------------------------
(* The steps of the try block *)

\* Variant: only the 4xx range is treated as an error.
RaiseForStatusClientOnly(status, reason, url) ==
    IF 400 <= status /\ status < 500
    THEN Raise("HTTPError", ToString(status) \o " Client Error: " \o reason
                            \o " for url: " \o url)
    ELSE Ok(PyNone)

\* response.raise_for_status()
RaiseForStatus(status, reason, url) ==
    IF 400 <= status /\ status < 500
    THEN Raise("HTTPError", ToString(status) \o " Client Error: " \o reason
                            \o " for url: " \o url)
    ELSE IF 500 <= status /\ status < 600
    THEN Raise("HTTPError", ToString(status) \o " Server Error: " \o reason
                            \o " for url: " \o url)
    ELSE Ok(PyNone)

\* response.json()
ResponseJson(body) ==
    CASE body = "[{\"generated_text\": \"2+2=4\"}]" ->
            Ok(PyList(<<PyDict([generated_text |-> PyStr("2+2=4")])>>))
      [] body = "[{\"generated_text\": \"Paris\"}, {\"generated_text\": \"Rome\"}]" ->
            Ok(PyList(<<PyDict([generated_text |-> PyStr("Paris")]),
                        PyDict([generated_text |-> PyStr("Rome")])>>))
      [] body = "[{\"generated_text\": null}]" ->
            Ok(PyList(<<PyDict([generated_text |-> PyNone])>>))
      [] body = "[{\"error\": \"overloaded\"}]" ->
            Ok(PyList(<<PyDict([error |-> PyStr("overloaded")])>>))
      [] body = "[]" -> Ok(PyList(<<>>))
      [] body = "[\"Paris\"]" -> Ok(PyList(<<PyStr("Paris")>>))
      [] body = "{\"error\": \"Model is loading\"}" ->
            Ok(PyDict([error |-> PyStr("Model is loading")]))
      [] body = "\"Paris\"" -> Ok(PyStr("Paris"))
      [] body = "5" -> Ok(PyNum(5))
      [] OTHER ->
            Raise("JSONDecodeError", "Expecting value: line 1 column 1 (char 0)")

TypeName(v) ==
    CASE v.t = "str" -> "str"
      [] v.t = "num" -> "int"
      [] v.t = "null" -> "NoneType"
      [] v.t = "list" -> "list"
      [] v.t = "dict" -> "dict"
      [] OTHER -> "object"

\* The first character of a str.
FirstChar(s) ==
    CASE s = "Paris" -> "P"
      [] s = "2+2=4" -> "2"
      [] OTHER -> "?"

\* Variant: an empty list is read as a list holding one empty record.
Subscript0OrEmpty(v) ==
    CASE v.t = "list" ->
            IF Len(v.items) = 0 THEN Ok(PyDict(EmptyMap))
            ELSE Ok(v.items[1])
      [] v.t = "str" ->
            IF v.s = "" THEN Raise("IndexError", "string index out of range")
            ELSE Ok(PyStr(FirstChar(v.s)))
      [] v.t = "dict" -> Raise("KeyError", "0")
      [] OTHER ->
            Raise("TypeError", "'" \o TypeName(v) \o "' object is not subscriptable")

\* Variant: response_json[-1].
Subscript0Last(v) ==
    CASE v.t = "list" ->
            IF Len(v.items) = 0 THEN Raise("IndexError", "list index out of range")
            ELSE Ok(v.items[Len(v.items)])
      [] v.t = "str" ->
            IF v.s = "" THEN Raise("IndexError", "string index out of range")
            ELSE Ok(PyStr(FirstChar(v.s)))
      [] v.t = "dict" -> Raise("KeyError", "-1")
      [] OTHER ->
            Raise("TypeError", "'" \o TypeName(v) \o "' object is not subscriptable")

\* response_json[0]
Subscript0(v) ==
    CASE v.t = "list" ->
            IF Len(v.items) = 0 THEN Raise("IndexError", "list index out of range")
            ELSE Ok(v.items[1])
      [] v.t = "str" ->
            IF v.s = "" THEN Raise("IndexError", "string index out of range")
            ELSE Ok(PyStr(FirstChar(v.s)))
      [] v.t = "dict" -> Raise("KeyError", "0")
      [] OTHER ->
            Raise("TypeError", "'" \o TypeName(v) \o "' object is not subscriptable")

\* Variant: <first>.get(key), the default left out.
DictGetNoDefault(v, key, default) ==
    IF v.t = "dict"
    THEN Ok(IF key \in DOMAIN v.fields THEN v.fields[key] ELSE PyNone)
    ELSE Raise("AttributeError",
               "'" \o TypeName(v) \o "' object has no attribute 'get'")

\* <first>.get(key, default)
DictGet(v, key, default) ==
    IF v.t = "dict"
    THEN Ok(IF key \in DOMAIN v.fields THEN v.fields[key] ELSE default)
    ELSE Raise("AttributeError",
               "'" \o TypeName(v) \o "' object has no attribute 'get'")

Placeholder == "No response generated."

\* The body of the try: the value assigned to generated_text, or the exception.
TryBlock(r, url) ==
    IF r.kind = "raise" THEN Raise(r.cls, r.msg)
    ELSE LET st == RaiseForStatus(r.status, r.reason, url) IN
         IF st.raised THEN st
         ELSE LET response_json == ResponseJson(r.body) IN
              IF response_json.raised THEN response_json
              ELSE LET first == Subscript0(response_json.value) IN
                   IF first.raised THEN first
                   ELSE DictGet(first.value, "generated_text", PyStr(Placeholder))

----------------------------------------------------------------------------
(* The except clauses *)

\* Variant: no catch-all clause.
ExceptHandlersNoCatchAll == <<"Timeout", "ConnectionError", "HTTPError">>

\* Variant: the catch-all clause written first.
ExceptHandlersCatchAllFirst ==
    <<"Exception", "Timeout", "ConnectionError", "HTTPError">>

\* Variant: the connection-error clause written before the timeout clause.
ExceptHandlersConnectionFirst ==
    <<"ConnectionError", "Timeout", "HTTPError", "Exception">>

\* The except clauses of the try, in the order they are written.
ExceptHandlers == <<"Timeout", "ConnectionError", "HTTPError", "Exception">>

\* The first clause the exception is an instance of; 0 when none matches.
FirstHandler(cls) ==
    LET matching == {i \in 1..Len(ExceptHandlers) : ExceptHandlers[i] \in Bases(cls)}
    IN IF matching = {} THEN 0
       ELSE CHOOSE i \in matching : \A j \in matching : i <= j

TimeoutMessage == "Error: The server took too long to respond. Try again later."

ConnectionMessage ==
    "Error: Could not connect to Hugging Face API. Check your internet or try later."

\* Variant: the connection-error clause reports the exception text.
HandlerTextNoConnection(clause, msg) ==
    CASE clause = "Timeout" -> TimeoutMessage
      [] clause = "HTTPError" -> "HTTP Error: " \o msg
      [] OTHER -> "Error: " \o msg

\* The value a clause assigns to generated_text.
HandlerText(clause, msg) ==
    CASE clause = "Timeout" -> TimeoutMessage
      [] clause = "ConnectionError" -> ConnectionMessage
      [] clause = "HTTPError" -> "HTTP Error: " \o msg
      [] OTHER -> "Error: " \o msg

\* try/except as a whole: the value returned, or the exception that no
\* clause catches.
TryExcept(r, url) ==
    LET t == TryBlock(r, url) IN
    IF ~t.raised THEN t
    ELSE LET h == FirstHandler(t.cls) IN
         IF h = 0 THEN t
         ELSE Ok(PyStr(HandlerText(ExceptHandlers[h], t.msg)))

----------------------------------------------------------------------------
(* query_hugging_face *)

Prompts == {"2+2=?", "hello"}

\* The optional arguments a caller may pass.
KwargsSet ==
    {EmptyMap,
     [max_length |-> 50],
     [temperature |-> "0.0"],
     [max_length |-> 50, temperature |-> "0.0"]}

DefaultMaxLength == 200

DefaultTemperature == "0.7"

PostTimeout == 10

\* Parameter binding of def query_hugging_face(prompt, max_length, temperature).
BindArgs(p, kw) ==
    [prompt |-> p,
     max_length |->
        IF "max_length" \in DOMAIN kw THEN kw.max_length ELSE DefaultMaxLength,
     temperature |->
        IF "temperature" \in DOMAIN kw THEN kw.temperature ELSE DefaultTemperature]

\* Variant: the model name written into the URL.
ApiUrlHardcoded(model) ==
    "https://api-inference.huggingface.co/models/tiiuae/falcon-7b-instruct"

ApiUrl(model) == "https://api-inference.huggingface.co/models/" \o model

Headers(key) == [Authorization |-> "Bearer " \o key]

\* Variant: the length argument is not passed on.
PayloadFixedLength(args) ==
    [inputs |-> args.prompt,
     parameters |-> [max_new_tokens |-> DefaultMaxLength,
                     temperature |-> args.temperature]]

Payload(args) ==
    [inputs |-> args.prompt,
     parameters |-> [max_new_tokens |-> args.max_length,
                     temperature |-> args.temperature]]

NoRequest == [sent |-> FALSE]

\* requests.post(API_URL, headers=headers, json=payload, timeout=10)
PostRequest(model, key, args) ==
    [sent |-> TRUE, method |-> "POST", url |-> ApiUrl(model),
     headers |-> Headers(key), json |-> Payload(args), timeout |-> PostTimeout]

\* A cell calls query_hugging_face(p, **kw).  The function builds the URL and
\* the headers from the globals (a NameError when one is unbound), builds the
\* payload and enters requests.post.
Call ==
    /\ pc = "idle"
    /\ defined
    /\ calls < MaxCalls
    /\ calls' = calls + 1
    /\ \E p \in Prompts, kw \in KwargsSet :
        /\ prompt' = p
        /\ kwargs' = kw
        /\ reply' = NoReply
        /\ generated_text' = NoValue
        /\ IF MODEL_NAME = Unbound \/ API_KEY = Unbound
           THEN /\ pc' = "idle"
                /\ request' = NoRequest
                /\ posts' = 0
                /\ outcome' = "raised"
                /\ raised' = "NameError"
           ELSE /\ pc' = "posting"
                /\ request' = PostRequest(MODEL_NAME, API_KEY, BindArgs(p, kw))
                /\ posts' = 1
                /\ outcome' = "none"
                /\ raised' = ""
    /\ UNCHANGED configVars

\* Variant: a timeout is answered by posting once more.
RespondRetrying ==
    /\ pc = "posting"
    /\ \E r \in Replies :
        IF r.kind = "raise" /\ "Timeout" \in Bases(r.cls) /\ posts < 2
        THEN /\ posts' = posts + 1
             /\ UNCHANGED <<pc, reply, outcome, generated_text, raised>>
        ELSE /\ reply' = r
             /\ LET t == TryExcept(r, request.url) IN
                 /\ outcome' = IF t.raised THEN "raised" ELSE "returned"
                 /\ generated_text' = t.value
                 /\ raised' = t.cls
             /\ pc' = "idle"
             /\ UNCHANGED posts
    /\ UNCHANGED <<calls, prompt, kwargs, request>>
    /\ UNCHANGED <<configFile, configModule, API_KEY, MODEL_NAME, defined, edits>>

\* requests.post raises or returns; the rest of the function runs and the
\* call ends.
Respond ==
    /\ pc = "posting"
    /\ \E r \in Replies :
        /\ reply' = r
        /\ LET t == TryExcept(r, request.url) IN
            /\ outcome' = IF t.raised THEN "raised" ELSE "returned"
            /\ generated_text' = t.value
            /\ raised' = t.cls
    /\ pc' = "idle"
    /\ UNCHANGED <<calls, prompt, kwargs, request, posts>>
    /\ UNCHANGED <<configFile, configModule, API_KEY, MODEL_NAME, defined, edits>>

----------------------------------------------------------------------------
(* The kernel *)

Init ==
    /\ configFile \in ConfigFiles
    /\ configModule = NotImported
    /\ API_KEY = Unbound
    /\ MODEL_NAME = Unbound
    /\ defined = FALSE
    /\ edits = 0
    /\ calls = 0
    /\ pc = "idle"
    /\ prompt = ""
    /\ kwargs = EmptyMap
    /\ request = NoRequest
    /\ posts = 0
    /\ reply = NoReply
    /\ outcome = "none"
    /\ generated_text = NoValue
    /\ raised = ""

Next ==
    \/ LoadConfigCell
    \/ ReloadConfigCell
    \/ DefineCell
    \/ EditConfig
    \/ Call
    \/ Respond

Spec == Init /\ [][Next]_vars

----------------------------------------------------------------------------
(* Properties of query_hugging_face *)

\* A call has ended (it returned or an exception propagated).
CallEnded == pc = "idle" /\ calls > 0

\* The last call ended after requests.post raised or returned.
Replied == CallEnded /\ reply # NoReply

\* The service answered with a success status.
SuccessStatus == Replied /\ reply.kind = "response" /\ reply.status \in 200..299

\* The success body is a list whose first element is a record.
FirstIsRecord ==
    /\ SuccessStatus
    /\ ~ResponseJson(reply.body).raised
    /\ ResponseJson(reply.body).value.t = "list"
    /\ Len(ResponseJson(reply.body).value.items) >= 1
    /\ ResponseJson(reply.body).value.items[1].t = "dict"

FirstRecord == ResponseJson(reply.body).value.items[1].fields

\* C1 (as stated): query_hugging_face never raises; whatever way the call
\* fails, configuration values included, it returns a string and no
\* exception propagates.
C1_NeverRaises == CallEnded => outcome = "returned"

\* C1 (amended): an exception propagates out of a call only as the NameError
\* of an unbound MODEL_NAME or API_KEY, raised before the try and before any
\* request, or as a non-Exception interrupt of the POST; every other failure
\* of the transport, the status check or the parsing ends in a returned str.
C1_FailuresInTryReturnText ==
    /\ outcome = "raised" =>
        \/ raised = "NameError" /\ posts = 0 /\ reply = NoReply
        \/ /\ reply.kind = "raise"
           /\ raised = reply.cls
           /\ "Exception" \notin Bases(reply.cls)
    /\ (Replied /\ reply.kind = "raise" /\ "Exception" \in Bases(reply.cls)) =>
        (outcome = "returned" /\ generated_text.t = "str")
    /\ (Replied /\ reply.kind = "response" /\ reply.status \in 400..599) =>
        (outcome = "returned" /\ generated_text.t = "str")
    /\ (SuccessStatus /\ ~FirstIsRecord) =>
        (outcome = "returned" /\ generated_text.t = "str")

\* C1 witness: a transport failure that no specific clause names was
\* returned as text.
C1_Witness ==
    /\ Replied
    /\ reply.cls = "TooManyRedirects"
    /\ outcome = "returned"
    /\ generated_text = PyStr("Error: Exceeded 30 redirects.")

\* C2: on a success status and a body that is a list whose first element has
\* a generated_text field, the call returns exactly that field's value; the
\* prompt "2+2=?" with 50 / 0.0 against [{"generated_text": "2+2=4"}]
\* returns "2+2=4".
C2_ReturnsGeneratedText ==
    /\ (FirstIsRecord /\ "generated_text" \in DOMAIN FirstRecord) =>
        (outcome = "returned" /\ generated_text = FirstRecord.generated_text)
    /\ (SuccessStatus /\ reply.body = "[{\"generated_text\": \"2+2=4\"}]") =>
        generated_text = PyStr("2+2=4")
    /\ (SuccessStatus /\ reply.body =
            "[{\"generated_text\": \"Paris\"}, {\"generated_text\": \"Rome\"}]") =>
        generated_text = PyStr("Paris")

\* C2 witness: the scenario of the claim has run.
C2_Witness ==
    /\ SuccessStatus
    /\ prompt = "2+2=?"
    /\ kwargs = [max_length |-> 50, temperature |-> "0.0"]
    /\ reply.status = 200
    /\ reply.body = "[{\"generated_text\": \"2+2=4\"}]"
    /\ generated_text = PyStr("2+2=4")

\* C3: on a success status, when the first element of the result list is a
\* record without a generated_text field, the call returns the literal
\* "No response generated.".
C3_PlaceholderWhenFieldAbsent ==
    (FirstIsRecord /\ "generated_text" \notin DOMAIN FirstRecord) =>
        (outcome = "returned" /\ generated_text = PyStr("No response generated."))

\* C3 witness: a success body whose first record has only an error field.
C3_Witness ==
    /\ SuccessStatus
    /\ reply.body = "[{\"error\": \"overloaded\"}]"
    /\ generated_text = PyStr("No response generated.")

\* C4: whenever the POST raises a timeout, the call returns exactly the
\* timeout message.
C4_TimeoutMessage ==
    (Replied /\ reply.kind = "raise" /\ "Timeout" \in Bases(reply.cls)) =>
        /\ outcome = "returned"
        /\ generated_text =
            PyStr("Error: The server took too long to respond. Try again later.")

\* C4 witness: a read timeout was turned into the timeout message.
C4_Witness ==
    /\ Replied
    /\ reply.cls = "ReadTimeout"
    /\ prompt = "hello"
    /\ generated_text =
        PyStr("Error: The server took too long to respond. Try again later.")

\* C5 (as stated): whenever the POST raises a connection error, the call
\* returns exactly the connection-error message.
C5_ConnectionMessage ==
    (Replied /\ reply.kind = "raise" /\ "ConnectionError" \in Bases(reply.cls)) =>
        /\ outcome = "returned"
        /\ generated_text = PyStr(
            "Error: Could not connect to Hugging Face API. Check your internet or try later.")

\* C5 (amended): whenever the POST raises a connection error that is not
\* also a timeout, the call returns exactly the connection-error message.
C5_ConnectionMessageUnlessTimeout ==
    (/\ Replied
     /\ reply.kind = "raise"
     /\ "ConnectionError" \in Bases(reply.cls)
     /\ "Timeout" \notin Bases(reply.cls)) =>
        /\ outcome = "returned"
        /\ generated_text = PyStr(
            "Error: Could not connect to Hugging Face API. Check your internet or try later.")

\* C5 witness: an SSL failure, a connection error, gave the connection message.
C5_Witness ==
    /\ Replied
    /\ reply.cls = "SSLError"
    /\ generated_text = PyStr(
        "Error: Could not connect to Hugging Face API. Check your internet or try later.")

\* The text of the HTTP error a 4xx or 5xx status produces.
HttpDetail ==
    ToString(reply.status)
    \o (IF reply.status < 500 THEN " Client Error: " ELSE " Server Error: ")
    \o reply.reason \o " for url: " \o request.url

\* C6 (as stated): whenever the service returns a status outside 200..299,
\* whatever the body, the result is the "HTTP Error: <detail>" message
\* carrying the status text.
C6_HttpErrorOnNon2xx ==
    (Replied /\ reply.kind = "response" /\ reply.status \notin 200..299) =>
        /\ outcome = "returned"
        /\ generated_text = PyStr("HTTP Error: " \o HttpDetail)

\* C6 (amended): whenever the service returns a status in 400..599, whatever
\* the body, the result is the "HTTP Error: <detail>" message carrying the
\* status code and status text.
C6_HttpErrorOn4xx5xx ==
    /\ (Replied /\ reply.kind = "response" /\ reply.status \in 400..599) =>
        /\ outcome = "returned"
        /\ generated_text = PyStr("HTTP Error: " \o HttpDetail)
    /\ (Replied /\ reply.kind = "response" /\ reply.status = 503) =>
        generated_text = PyStr("HTTP Error: 503 Server Error: Service Unavailable for url: "
                               \o request.url)

\* C6 witness: a 404 answer with a well-formed body gave the HTTP error text.
C6_Witness ==
    /\ Replied
    /\ reply.status = 404
    /\ reply.body = "[{\"generated_text\": \"2+2=4\"}]"
    /\ request.url = "https://api-inference.huggingface.co/models/tiiuae/falcon-7b-instruct"
    /\ generated_text = PyStr(
        "HTTP Error: 404 Client Error: Not Found for url: https://api-inference.huggingface.co/models/tiiuae/falcon-7b-instruct")

\* C7: the request handed to the transport carries the supplied prompt
\* verbatim as inputs, max_new_tokens and temperature equal to the supplied
\* values or to the defaults 200 and 0.7, the URL built from MODEL_NAME, the
\* header Authorization: Bearer <API_KEY> and the timeout 10.
C7_RequestCarriesArguments ==
    /\ pc = "posting" =>
        /\ request.sent
        /\ request.method = "POST"
        /\ request.url = "https://api-inference.huggingface.co/models/" \o MODEL_NAME
        /\ request.headers = [Authorization |-> "Bearer " \o API_KEY]
        /\ request.timeout = 10
    /\ request.sent =>
        /\ DOMAIN request.json = {"inputs", "parameters"}
        /\ request.json.inputs = prompt
        /\ DOMAIN request.json.parameters = {"max_new_tokens", "temperature"}
        /\ request.json.parameters.max_new_tokens =
            (IF "max_length" \in DOMAIN kwargs THEN kwargs.max_length ELSE 200)
        /\ request.json.parameters.temperature =
            (IF "temperature" \in DOMAIN kwargs THEN kwargs.temperature ELSE "0.7")

\* C7 witness: a call that passes a temperature and no length is in the POST,
\* and its request carries the temperature and the default length 200.
C7_Witness ==
    /\ pc = "posting"
    /\ prompt = "hello"
    /\ kwargs = [temperature |-> "0.0"]
    /\ request.json.parameters = [max_new_tokens |-> 200, temperature |-> "0.0"]

\* C8 (as stated): each call issues exactly one POST and then returns.
C8_OnePostThenReturn == CallEnded => (posts = 1 /\ outcome = "returned")

\* C8 (amended): a call that finds MODEL_NAME and API_KEY bound calls
\* requests.post exactly once, never a second time, has no result while the POST is
\* pending, and returns once the POST has completed or failed unless the POST
\* is interrupted by a non-Exception (KeyboardInterrupt); a call that finds
\* one of them unbound raises NameError and issues no POST.
C8_OnePostWhenConfigured ==
    /\ posts \in {0, 1}
    /\ posts = 1 <=> request.sent
    /\ pc = "posting" =>
        (posts = 1 /\ outcome = "none" /\ generated_text = NoValue /\ reply = NoReply)
    /\ (CallEnded /\ posts = 0) => (outcome = "raised" /\ raised = "NameError")
    /\ (CallEnded /\ posts = 1) =>
        /\ reply # NoReply
        /\ \/ outcome = "returned"
           \/ outcome = "raised" /\ raised = "KeyboardInterrupt"
    /\ outcome = "returned" => (posts = 1 /\ reply # NoReply)

\* C8 witness: a second call ended after its one POST timed out.
C8_Witness ==
    /\ CallEnded
    /\ calls = 2
    /\ posts = 1
    /\ reply.cls = "ConnectTimeout"
    /\ outcome = "returned"

\* The step is taken by query_hugging_face (its entry or its return).
CallStep == calls' # calls \/ pc = "posting"

\* C9 (as stated): MODEL_NAME and API_KEY are read once and then immutable:
\* once bound they never change, and every call uses the same URL and the
\* same credential as the call before it.
C9_ConfigReadOnce ==
    [][/\ MODEL_NAME # Unbound => MODEL_NAME' = MODEL_NAME
       /\ API_KEY # Unbound => API_KEY' = API_KEY
       /\ (request.sent /\ request'.sent) =>
            (request'.url = request.url /\ request'.headers = request.headers)]_vars

\* C9 (amended): no step of query_hugging_face changes MODEL_NAME or
\* API_KEY, and every call uses the URL and the credential built from the
\* values the two globals hold when it is made; the globals themselves are
\* reassigned by every run of a configuration cell.
C9_CallsReadCurrentConfig ==
    [][/\ CallStep => (MODEL_NAME' = MODEL_NAME /\ API_KEY' = API_KEY)
       /\ (calls' # calls /\ request'.sent) =>
            /\ request'.url =
                "https://api-inference.huggingface.co/models/" \o MODEL_NAME
            /\ request'.headers.Authorization = "Bearer " \o API_KEY
       /\ (request' # request) => calls' # calls]_vars

\* C9 witness: after config.py was edited and reloaded, a second call posts
\* to the model and with the key now in the globals.
C9_Witness ==
    /\ pc = "posting"
    /\ calls = 2
    /\ edits = 1
    /\ configModule # NotImported
    /\ MODEL_NAME = "mistralai/Mistral-7B-Instruct"
    /\ API_KEY = "hf_token_2"
    /\ request.url =
        "https://api-inference.huggingface.co/models/mistralai/Mistral-7B-Instruct"
    /\ request.headers.Authorization = "Bearer hf_token_2"

\* C10: a failure is classified by the first matching clause in the order
\* timeout, connection error, HTTP error, catch-all, and yields one message:
\* a connect timeout (both a timeout and a connection error) yields the
\* timeout message and not the connection message, and an HTTP error status
\* yields "HTTP Error: ..." and not the catch-all "Error: ...".
C10_FirstMatchingClause ==
    /\ (Replied /\ reply.kind = "raise"
        /\ {"Timeout", "ConnectionError"} \subseteq Bases(reply.cls)) =>
        /\ generated_text =
            PyStr("Error: The server took too long to respond. Try again later.")
        /\ generated_text # PyStr(
            "Error: Could not connect to Hugging Face API. Check your internet or try later.")
    /\ (Replied /\ reply.kind = "response" /\ reply.status \in {404, 503}) =>
        /\ generated_text = PyStr("HTTP Error: " \o HttpDetail)
        /\ generated_text # PyStr("Error: " \o HttpDetail)
    /\ (Replied /\ reply.kind = "raise" /\ "Exception" \in Bases(reply.cls)) =>
        generated_text =
            IF "Timeout" \in Bases(reply.cls)
            THEN PyStr("Error: The server took too long to respond. Try again later.")
            ELSE IF "ConnectionError" \in Bases(reply.cls)
            THEN PyStr("Error: Could not connect to Hugging Face API. Check your internet or try later.")
            ELSE PyStr("Error: " \o reply.msg)

\* C10 witness: a connect timeout was answered with the timeout message.
C10_Witness ==
    /\ Replied
    /\ reply.cls = "ConnectTimeout"
    /\ outcome = "returned"
    /\ generated_text =
        PyStr("Error: The server took too long to respond. Try again later.")

\* C11: on a success status the placeholder "No response generated." is
\* returned only when the first element of the body exists, is a record and
\* lacks generated_text; when the body is an empty list, has a first element
\* that is not a record, is not a list, or cannot be parsed, the call returns
\* the catch-all "Error: <text of the exception>" and neither the placeholder
\* nor any generated text.
C11_CatchAllOnMalformedBody ==
    /\ (SuccessStatus /\ generated_text = PyStr("No response generated.")) =>
        (FirstIsRecord /\ "generated_text" \notin DOMAIN FirstRecord)
    /\ (SuccessStatus /\ ~FirstIsRecord) =>
        /\ outcome = "returned"
        /\ generated_text.t = "str"
        /\ generated_text # PyStr("No response generated.")
        /\ generated_text.s \notin {"2+2=4", "Paris", "Rome", "P", "overloaded",
                                    "Model is loading"}
    /\ (SuccessStatus /\ reply.body = "[]") =>
        generated_text = PyStr("Error: list index out of range")
    /\ (SuccessStatus /\ reply.body \in {"[\"Paris\"]", "\"Paris\""}) =>
        generated_text = PyStr("Error: 'str' object has no attribute 'get'")
    /\ (SuccessStatus /\ reply.body = "{\"error\": \"Model is loading\"}") =>
        generated_text = PyStr("Error: 0")
    /\ (SuccessStatus /\ reply.body = "5") =>
        generated_text = PyStr("Error: 'int' object is not subscriptable")
    /\ (SuccessStatus /\ reply.body \in {"<html>Bad Gateway</html>", ""}) =>
        generated_text = PyStr("Error: Expecting value: line 1 column 1 (char 0)")

\* C11 witness: a 200 answer with an empty list gave the catch-all message.
C11_Witness ==
    /\ SuccessStatus
    /\ reply.status = 200
    /\ reply.body = "[]"
    /\ outcome = "returned"
    /\ generated_text = PyStr("Error: list index out of range")

====
